---- MODULE Spec2Model ----
(***************************************************************************)
(* Model of the CCTP attestation proxy (src/server.js) and of the Circle   *)
(* USDC faucet automation (src/faucet-automation.js and its GitHub Actions *)
(* variant src/unnamed/part_000).                                          *)
(*                                                                         *)
(* JavaScript runs every stretch of code between two suspension points     *)
(* (await) atomically, so the actions below are those stretches.           *)
(***************************************************************************)
EXTENDS Integers, Sequences, FiniteSets, TLC

(***************************************************************************)
(* Bounds of the model.                                                    *)
(***************************************************************************)
\* HTTP requests GET /attestations/:hash the proxy receives in one run
NumReqs == 2
\* remote requests one pollAttestation invocation may issue in the model
MaxAttempts == 3
\* wallet addresses in wallets.json, over all chains
MaxWallets == 3

(***************************************************************************)
(* Constants of src/server.js.                                             *)
(***************************************************************************)
timeout == 180000
pollInterval == 3000

Reqs == 1..NumReqs

\* identifiers (transaction hashes) a caller may ask for
Hashes == {"0xabc", "0xdef"}

\* time that may pass while a poll is suspended (fetch latency, timer lateness)
Delays == {0, pollInterval, timeout}

(***************************************************************************)
(* Response bodies of the IRIS service: JSON objects {status?,             *)
(* attestation?}.  A field that is absent reads as undefined.              *)
(***************************************************************************)
Undefined == "<undefined>"

StatusValues == {Undefined, "pending_confirmations", "complete", "other"}
AttestationValues == {Undefined, "pending", "PENDING", "Pending", "0xa77e57ed"}

JsonBodies == [status : StatusValues, attestation : AttestationValues]

EmptyJson == [status |-> Undefined, attestation |-> Undefined]

\* JavaScript truthiness of a string-or-undefined value
Truthy(v) == v # Undefined /\ v # ""

\* what one fetch of IRIS/<hash>, followed by res.json(), may settle to
NetErr == [kind |-> "neterr", code |-> 0, parses |-> FALSE, body |-> EmptyJson]
HttpRes(code, json) == [kind |-> "http", code |-> code, parses |-> TRUE, body |-> json]
BadBody(code) == [kind |-> "http", code |-> code, parses |-> FALSE, body |-> EmptyJson]

Responses ==
    {NetErr, HttpRes(404, EmptyJson), HttpRes(500, EmptyJson), BadBody(200)}
    \cup {HttpRes(200, j) : j \in JsonBodies}

NoRes == [kind |-> "none", code |-> 0, parses |-> FALSE, body |-> EmptyJson]

\* res.ok
Ok(res) == res.kind = "http" /\ res.code >= 200 /\ res.code <= 299

(***************************************************************************)
(* pollAttestation: the readiness tests of one parsed response.            *)
(***************************************************************************)
\* server.js line 46
AttestationReady(json) ==
    /\ Truthy(json.attestation)
    /\ json.attestation # "PENDING"
    /\ json.attestation # "pending"

\* StatusReady with the attestation test of line 56 left out
StatusReadyIgnoringAttestation(json) ==
    /\ json.status # "pending_confirmations"
    /\ json.status = "complete"

\* server.js lines 52-59: the status branch taken when line 46 did not return
StatusReady(json) ==
    /\ json.status # "pending_confirmations"
    /\ json.status = "complete"
    /\ Truthy(json.attestation)

\* the try block ends in "return json": the fetch resolved, res.ok, the body
\* parsed, and one of the two tests holds
ReturnsJson(res) ==
    /\ res.kind = "http"
    /\ Ok(res)
    /\ res.parses
    /\ (AttestationReady(res.body) \/ StatusReady(res.body))

\* the try block threw and the catch of line 62 absorbed it, or the response
\* was not ok (lines 32-36)
TransientFailure(res) ==
    \/ res.kind = "neterr"
    \/ res.kind = "http" /\ ~Ok(res)
    \/ res.kind = "http" /\ Ok(res) /\ ~res.parses

\* TimedOut with the operands of the subtraction exchanged
TimedOutSwapped(clock, startTime) == startTime - clock > timeout

\* server.js line 68, with clock the value Date.now() reads
TimedOut(clock, startTime) == clock - startTime > timeout

\* LoopOutcome with the deadline check placed before the readiness tests
LoopOutcomeDeadlineFirst(res, clock, startTime) ==
    IF TimedOut(clock, startTime) THEN "throw"
    ELSE IF ReturnsJson(res) THEN "return"
    ELSE "wait"

\* LoopOutcome giving up on a transient failure instead of absorbing it
LoopOutcomeAbortOnError(res, clock, startTime) ==
    IF ReturnsJson(res) THEN "return"
    ELSE IF TransientFailure(res) \/ TimedOut(clock, startTime) THEN "throw"
    ELSE "wait"

\* one pass of the loop body (lines 27-77) once the fetch has settled with res:
\* what the pass ends in
LoopOutcome(res, clock, startTime) ==
    IF ReturnsJson(res) THEN "return"
    ELSE IF TimedOut(clock, startTime) THEN "throw"
    ELSE "wait"

\* the Error thrown at lines 70-73
TimeoutError(h) == [message |-> <<"Attestation timeout", h>>]

\* NextPc with the loop going on after it delivered the payload
NextPcNoReturn(outcome) ==
    CASE outcome = "return" -> "waiting"
      [] outcome = "throw" -> "thrown"
      [] outcome = "wait" -> "waiting"

\* where a pass of the loop body leaves the invocation: "return json" (lines
\* 48, 58), the throw (line 70) or "await new Promise(setTimeout)" (line 77)
NextPc(outcome) ==
    CASE outcome = "return" -> "returned"
      [] outcome = "throw" -> "thrown"
      [] outcome = "wait" -> "waiting"

(***************************************************************************)
(* State of the proxy server.                                              *)
(***************************************************************************)
VARIABLES
    now,        \* the wall clock, in ms (Date.now())
    serverUp,   \* the node process is alive
    pc,         \* per request: where its pollAttestation invocation is
    hash,       \* per request: req.params.hash
    start,      \* per request: pollAttestation's start
    attempts,   \* per request: remote requests issued so far
    waits,      \* per request: poll-interval timers started so far
    wakeAt,     \* per request: earliest time the pending timer may fire
    last,       \* per request: the response of the latest settled attempt
    failures,   \* per request: attempts that ended in a transient failure
    allPending, \* per request: every response so far carried "pending"/"PENDING"
    outcomes,   \* per request: what the invocation returned or threw, and when
    sent        \* per request: the HTTP responses the handler sent

proxyVars ==
    <<now, serverUp, pc, hash, start, attempts, waits, wakeAt, last, failures,
      allPending, outcomes, sent>>

NoHash == "<none>"

InitProxy ==
    /\ now = 0
    /\ serverUp = TRUE
    /\ pc = [p \in Reqs |-> "idle"]
    /\ hash = [p \in Reqs |-> NoHash]
    /\ start = [p \in Reqs |-> 0]
    /\ attempts = [p \in Reqs |-> 0]
    /\ waits = [p \in Reqs |-> 0]
    /\ wakeAt = [p \in Reqs |-> 0]
    /\ last = [p \in Reqs |-> NoRes]
    /\ failures = [p \in Reqs |-> 0]
    /\ allPending = [p \in Reqs |-> TRUE]
    /\ outcomes = [p \in Reqs |-> << >>]
    /\ sent = [p \in Reqs |-> << >>]

\* the handler's continuation after "await pollAttestation(hash)" resolved
\* (lines 88-89)
HandlerThen(p, result) ==
    /\ sent' = [sent EXCEPT ![p] = Append(@, [status |-> 200, body |-> result])]
    /\ serverUp' = serverUp

\* HandlerCatch without the try/catch: the rejection is unhandled, nothing is
\* sent and node ends the process
HandlerNoCatch(p, e) ==
    /\ sent' = sent
    /\ serverUp' = FALSE

\* the handler's catch block (lines 90-93)
HandlerCatch(p, e) ==
    /\ sent' = [sent EXCEPT ![p] =
                  Append(@, [status |-> 500,
                             body |-> [error |-> e.message]])]
    /\ serverUp' = serverUp

\* Arrive with start kept in one variable of the module, shared by all polls
ArriveSharedStart(p, h) ==
    /\ serverUp
    /\ pc[p] = "idle"
    /\ \A q \in Reqs : q < p => pc[q] # "idle"
    /\ hash' = [hash EXCEPT ![p] = h]
    /\ start' = [q \in Reqs |-> now]
    /\ attempts' = [attempts EXCEPT ![p] = 1]
    /\ pc' = [pc EXCEPT ![p] = "fetching"]
    /\ UNCHANGED <<now, serverUp, waits, wakeAt, last, failures, allPending,
                   outcomes, sent>>

\* GET /attestations/:hash arrives: the handler calls pollAttestation, which
\* records start and issues the first fetch.  Requests are numbered in the
\* order they arrive.
Arrive(p, h) ==
    /\ serverUp
    /\ pc[p] = "idle"
    /\ \A q \in Reqs : q < p => pc[q] # "idle"
    /\ hash' = [hash EXCEPT ![p] = h]
    /\ start' = [start EXCEPT ![p] = now]
    /\ attempts' = [attempts EXCEPT ![p] = 1]
    /\ pc' = [pc EXCEPT ![p] = "fetching"]
    /\ UNCHANGED <<now, serverUp, waits, wakeAt, last, failures, allPending,
                   outcomes, sent>>

\* the fetch (and res.json()) of request p settles with res after d ms; the
\* loop body runs on to the return, to the throw or to the setTimeout, and a
\* return or throw resumes the handler
AttemptSettles(p, d, res) ==
    /\ serverUp
    /\ pc[p] = "fetching"
    /\ now' = now + d
    /\ last' = [last EXCEPT ![p] = res]
    /\ failures' = [failures EXCEPT ![p] = IF TransientFailure(res) THEN @ + 1 ELSE @]
    /\ allPending' = [allPending EXCEPT ![p] =
                        /\ @
                        /\ res.kind = "http" /\ Ok(res) /\ res.parses
                        /\ res.body.attestation \in {"pending", "PENDING"}]
    /\ pc' = [pc EXCEPT ![p] = NextPc(LoopOutcome(res, now', start[p]))]
    /\ CASE LoopOutcome(res, now', start[p]) = "return" ->
              /\ outcomes' = [outcomes EXCEPT ![p] =
                                Append(@, [type |-> "payload", value |-> res.body, at |-> now'])]
              /\ HandlerThen(p, res.body)
              /\ UNCHANGED <<waits, wakeAt>>
         [] LoopOutcome(res, now', start[p]) = "throw" ->
              /\ outcomes' = [outcomes EXCEPT ![p] =
                                Append(@, [type |-> "timeout", value |-> EmptyJson, at |-> now'])]
              /\ HandlerCatch(p, TimeoutError(hash[p]))
              /\ UNCHANGED <<waits, wakeAt>>
         [] LoopOutcome(res, now', start[p]) = "wait" ->
              /\ waits' = [waits EXCEPT ![p] = @ + 1]
              /\ wakeAt' = [wakeAt EXCEPT ![p] = now' + pollInterval]
              /\ UNCHANGED <<outcomes, sent, serverUp>>
    /\ UNCHANGED <<hash, start, attempts>>

\* TimerFires with the next fetch not waiting for the timer
TimerFiresEarly(p, d) ==
    /\ serverUp
    /\ pc[p] = "waiting"
    /\ attempts[p] < MaxAttempts
    /\ now' = now + d
    /\ attempts' = [attempts EXCEPT ![p] = @ + 1]
    /\ pc' = [pc EXCEPT ![p] = "fetching"]
    /\ UNCHANGED <<serverUp, hash, start, waits, wakeAt, last, failures,
                   allPending, outcomes, sent>>

\* the setTimeout of line 77 fires, d ms from now and not before wakeAt; the
\* loop issues the next fetch
TimerFires(p, d) ==
    /\ serverUp
    /\ pc[p] = "waiting"
    /\ attempts[p] < MaxAttempts
    /\ now + d >= wakeAt[p]
    /\ now' = now + d
    /\ attempts' = [attempts EXCEPT ![p] = @ + 1]
    /\ pc' = [pc EXCEPT ![p] = "fetching"]
    /\ UNCHANGED <<serverUp, hash, start, waits, wakeAt, last, failures,
                   allPending, outcomes, sent>>

(***************************************************************************)
(* The faucet automation: src/faucet-automation.js (variant "local", which *)
(* repeats on a timer) and src/unnamed/part_000 (variant "actions", one    *)
(* cycle per process).                                                     *)
(***************************************************************************)
Variants == {"local", "actions"}

CHAINS ==
    [avalanche_fuji |-> [name |-> "Avalanche Fuji Testnet", chainId |-> "43113", token |-> "USDC"],
     ethereum_sepolia |-> [name |-> "Ethereum Sepolia Testnet", chainId |-> "11155111", token |-> "USDC"],
     base_sepolia |-> [name |-> "Base Sepolia Testnet", chainId |-> "84532", token |-> "USDC"]]

\* ChainOrder with the keys of CHAINS taken in alphabetical order
ChainOrderSorted == <<"avalanche_fuji", "base_sepolia", "ethereum_sepolia">>

\* Object.keys(CHAINS)
ChainOrder == <<"avalanche_fuji", "ethereum_sepolia", "base_sepolia">>

ChainNames == {ChainOrder[i] : i \in 1..Len(ChainOrder)}

WalletAddrs == {"0xA1", "0xB2"}

WalletLists == UNION {[1..n -> WalletAddrs] : n \in 0..MaxWallets}

\* wallets[chain] of a parsed wallets.json: an array, or undefined
WalletEntries ==
    {[present |-> FALSE, list |-> << >>]} \cup {[present |-> TRUE, list |-> l] : l \in WalletLists}

RECURSIVE TotalWallets(_, _)
TotalWallets(w, i) ==
    IF i = 0 THEN 0 ELSE Len(w[ChainOrder[i]].list) + TotalWallets(w, i - 1)

WalletConfigs ==
    {w \in [ChainNames -> WalletEntries] : TotalWallets(w, Len(ChainOrder)) <= MaxWallets}

NoWallets == [c \in ChainNames |-> [present |-> FALSE, list |-> << >>]]

\* the sample written by loadWallets of faucet-automation.js (lines 60-70)
sampleWallets ==
    [c \in ChainNames |-> [present |-> TRUE, list |-> <<"0x6021e09E8Cd947701E2368D60239C04486118f18">>]]

\* what reading wallets.json may give
WalletFiles ==
    {[kind |-> "missing", wallets |-> NoWallets], [kind |-> "corrupt", wallets |-> NoWallets]}
    \cup {[kind |-> "ok", wallets |-> w] : w \in WalletConfigs}

\* what the POST to the faucet, followed by response.json(), may settle to
FaucetBody(m, e) == [message |-> m, error |-> e]
FaucetRes(code, parses, body) == [kind |-> "http", code |-> code, parses |-> parses, body |-> body]
FaucetNetErr == [kind |-> "neterr", code |-> 0, parses |-> FALSE, body |-> FaucetBody(Undefined, Undefined)]

FaucetResponses ==
    {FaucetNetErr,
     FaucetRes(200, TRUE, FaucetBody("claimed", Undefined)),
     FaucetRes(200, FALSE, FaucetBody(Undefined, Undefined)),
     FaucetRes(429, TRUE, FaucetBody(Undefined, "rate limited"))}

\* the body of the POST claimUSDC sends (lines 91-95)
ClaimRequest(walletAddress, chain) ==
    [chain |-> chain, address |-> walletAddress,
     chainId |-> CHAINS[chain].chainId, token |-> CHAINS[chain].token]

\* ClaimResult without the try/catch of lines 83-114: a rejected fetch or an
\* unparsable body leaves claimUSDC as an exception
ClaimResultNoCatch(resp) ==
    IF resp.kind = "neterr" \/ ~resp.parses
      THEN [escaped |-> TRUE, success |-> FALSE, message |-> Undefined, error |-> Undefined]
    ELSE IF Ok(resp)
      THEN [escaped |-> FALSE, success |-> TRUE, message |-> resp.body.message, error |-> Undefined]
    ELSE [escaped |-> FALSE, success |-> FALSE, message |-> Undefined, error |-> resp.body.error]

\* how a call of claimUSDC ends once its fetch has settled with resp: the
\* value it returns, or an exception leaving it
ClaimResult(resp) ==
    IF resp.kind = "neterr"
      THEN [escaped |-> FALSE, success |-> FALSE, message |-> Undefined, error |-> "fetch failed"]
    ELSE IF ~resp.parses
      THEN [escaped |-> FALSE, success |-> FALSE, message |-> Undefined, error |-> "invalid json"]
    ELSE IF Ok(resp)
      THEN [escaped |-> FALSE, success |-> TRUE, message |-> resp.body.message, error |-> Undefined]
    ELSE [escaped |-> FALSE, success |-> FALSE, message |-> Undefined, error |-> resp.body.error]

\* ChainSummary taken over all results but the last one
ChainSummaryMissesLast(rs) ==
    [successful |-> Cardinality({i \in 1..(Len(rs) - 1) : rs[i].success}),
     failed |-> Cardinality({i \in 1..(Len(rs) - 1) : ~rs[i].success})]

\* results.filter(r => r.success).length and results.filter(r => !r.success).length
ChainSummary(rs) ==
    [successful |-> Cardinality({i \in 1..Len(rs) : rs[i].success}),
     failed |-> Cardinality({i \in 1..Len(rs) : ~rs[i].success})]

NoSummary == [logged |-> FALSE, successful |-> 0, failed |-> 0]

\* ClaimDelay doubling the delay after a failed claim
ClaimDelayBackoff(result) == IF result.success THEN 2000 ELSE 4000

\* the delay of the timer processChain awaits after the claim that gave
\* result: setTimeout(resolve, 2000), whatever the result
ClaimDelay(result) == 2000

VARIABLES
    variant,    \* which of the two programs runs
    walletFile, \* what reading wallets.json gives
    fpc,        \* where the cycle (runFaucet) is
    wallets,    \* runFaucet's wallets, once loaded
    chainIdx,   \* position of the chain loop in Object.keys(CHAINS)
    walletIdx,  \* position of processChain's loop in its wallet list
    results,    \* processChain's results
    posts,      \* the POST requests sent so far, in order
    claimLog,   \* per claimUSDC call that ended: its response and its result
    summaries,  \* per chain: the summary processChain logged
    allResults, \* variant "actions": runFaucet's allResults
    totals,     \* variant "actions": the final summary
    fatal,      \* the catch of runFaucet ran
    fclock,     \* the time, in ms since the cycle began
    delayUntil, \* when the timer processChain awaits is due
    sentAt      \* per POST sent so far: the time it was sent

faucetVars ==
    <<variant, walletFile, fpc, wallets, chainIdx, walletIdx, results, posts,
      claimLog, summaries, allResults, totals, fatal, fclock, delayUntil, sentAt>>

NoChainResults == [defined |-> FALSE, results |-> << >>]

FaucetStart(v, f) ==
    /\ variant = v
    /\ walletFile = f
    /\ fpc = "start"
    /\ wallets = NoWallets
    /\ chainIdx = 1
    /\ walletIdx = 0
    /\ results = << >>
    /\ posts = << >>
    /\ claimLog = << >>
    /\ summaries = [c \in ChainNames |-> NoSummary]
    /\ allResults = [c \in ChainNames |-> NoChainResults]
    /\ totals = NoSummary
    /\ fatal = FALSE
    /\ fclock = 0
    /\ delayUntil = 0
    /\ sentAt = << >>

InitFaucet == \E v \in Variants, f \in WalletFiles : FaucetStart(v, f)

\* the catch block of runFaucet: faucet-automation.js logs and lets the cycle
\* finish (lines 158-168); part_000 ends the process (lines 159-163)
FatalError ==
    /\ fatal' = TRUE
    /\ fpc' = IF variant = "local" THEN "done" ELSE "exited"

\* runFaucet is called and awaits loadWallets()
RunFaucet ==
    /\ fpc = "start"
    /\ fpc' = "loading"
    /\ UNCHANGED <<variant, walletFile, wallets, chainIdx, walletIdx, results,
                   posts, claimLog, summaries, allResults, totals, fatal,
                   fclock, delayUntil, sentAt>>

\* loadWallets settles
LoadWallets ==
    /\ fpc = "loading"
    /\ IF walletFile.kind = "ok"
         THEN /\ wallets' = walletFile.wallets
              /\ fpc' = "chain"
              /\ fatal' = fatal
       ELSE IF walletFile.kind = "missing" /\ variant = "local"
         THEN /\ wallets' = sampleWallets
              /\ fpc' = "chain"
              /\ fatal' = fatal
       ELSE /\ wallets' = wallets
            /\ FatalError
    /\ UNCHANGED <<variant, walletFile, chainIdx, walletIdx, results, posts,
                   claimLog, summaries, allResults, totals, fclock, delayUntil,
                   sentAt>>

\* runFaucet calls processChain for the next chain: an empty or missing list
\* makes it return at once, otherwise it calls claimUSDC for the first wallet,
\* which sends its POST
ProcessChain ==
    /\ fpc = "chain"
    /\ chainIdx <= Len(ChainOrder)
    /\ LET chain == ChainOrder[chainIdx]
           ws == wallets[chain]
       IN IF ~ws.present \/ Len(ws.list) = 0
            THEN /\ chainIdx' = chainIdx + 1
                 /\ UNCHANGED <<fpc, walletIdx, results, posts, allResults, sentAt>>
            ELSE /\ results' = << >>
                 /\ walletIdx' = 1
                 /\ posts' = Append(posts, ClaimRequest(ws.list[1], chain))
                 /\ sentAt' = Append(sentAt, fclock)
                 /\ fpc' = "claiming"
                 /\ UNCHANGED <<chainIdx, allResults>>
    /\ UNCHANGED <<variant, walletFile, wallets, claimLog, summaries, totals, fatal,
                   fclock, delayUntil>>

\* the POST of the current claimUSDC call settles with resp; claimUSDC
\* returns, processChain pushes the result and starts the 2 s delay
ClaimSettles(resp) ==
    /\ fpc = "claiming"
    /\ LET chain == ChainOrder[chainIdx]
           wallet == wallets[chain].list[walletIdx]
           result == ClaimResult(resp)
       IN /\ claimLog' = Append(claimLog,
                 [chain |-> chain, wallet |-> wallet, ok |-> Ok(resp),
                  parsed |-> resp.parses,
                  escaped |-> result.escaped, success |-> result.success,
                  at |-> fclock])
          /\ IF result.escaped
               THEN /\ FatalError
                    /\ results' = results
                    /\ delayUntil' = delayUntil
               ELSE /\ results' = Append(results,
                           [wallet |-> wallet, success |-> result.success,
                            message |-> result.message, error |-> result.error])
                    /\ delayUntil' = fclock + ClaimDelay(result)
                    /\ fpc' = "delay"
                    /\ fatal' = fatal
    /\ UNCHANGED <<variant, walletFile, wallets, chainIdx, walletIdx, posts,
                   summaries, allResults, totals, fclock, sentAt>>

\* the 2 s timer fires, when it is due: the loop of processChain goes to the
\* next wallet, or it ends and processChain logs its summary and returns to
\* runFaucet
DelayDone ==
    /\ fpc = "delay"
    /\ fclock' = delayUntil
    /\ LET chain == ChainOrder[chainIdx]
           ws == wallets[chain]
       IN IF walletIdx < Len(ws.list)
            THEN /\ walletIdx' = walletIdx + 1
                 /\ posts' = Append(posts, ClaimRequest(ws.list[walletIdx + 1], chain))
                 /\ sentAt' = Append(sentAt, fclock')
                 /\ fpc' = "claiming"
                 /\ UNCHANGED <<chainIdx, summaries, allResults>>
            ELSE /\ summaries' = [summaries EXCEPT ![chain] =
                        [logged |-> TRUE,
                         successful |-> ChainSummary(results).successful,
                         failed |-> ChainSummary(results).failed]]
                 /\ allResults' = IF variant = "actions"
                                    THEN [allResults EXCEPT ![chain] =
                                             [defined |-> TRUE, results |-> results]]
                                    ELSE allResults
                 /\ chainIdx' = chainIdx + 1
                 /\ fpc' = "chain"
                 /\ UNCHANGED <<walletIdx, posts, sentAt>>
    /\ UNCHANGED <<variant, walletFile, wallets, results, claimLog, totals, fatal,
                   delayUntil>>

RECURSIVE SumOver(_, _, _)
SumOver(all, i, wantSuccess) ==
    IF i = 0 THEN 0
    ELSE (IF wantSuccess THEN ChainSummary(all[ChainOrder[i]].results).successful
                         ELSE ChainSummary(all[ChainOrder[i]].results).failed)
         + SumOver(all, i - 1, wantSuccess)

\* the chain loop of runFaucet has ended: faucet-automation.js logs the
\* duration; part_000 adds up allResults, which throws on a chain whose
\* processChain returned undefined
CycleEnds ==
    /\ fpc = "chain"
    /\ chainIdx > Len(ChainOrder)
    /\ IF variant = "local"
         THEN /\ fpc' = "done"
              /\ UNCHANGED <<totals, fatal>>
       ELSE IF \E c \in ChainNames : ~allResults[c].defined
         THEN /\ FatalError
              /\ totals' = totals
       ELSE /\ totals' = [logged |-> TRUE,
                          successful |-> SumOver(allResults, Len(ChainOrder), TRUE),
                          failed |-> SumOver(allResults, Len(ChainOrder), FALSE)]
            /\ fpc' = "done"
            /\ fatal' = fatal
    /\ UNCHANGED <<variant, walletFile, wallets, chainIdx, walletIdx, results,
                   posts, claimLog, summaries, allResults, fclock, delayUntil,
                   sentAt>>

(***************************************************************************)
(* faucet-automation.js as it runs for hours: the cycle run at startup,    *)
(* then the cycles the repeating timer starts.  Each cycle is a call of    *)
(* runFaucet with its own locals; the calls interleave at their awaits.    *)
(***************************************************************************)
MaxCycles == 3

CLAIM_INTERVAL == 60 * 60 * 1000

Cycles == 1..MaxCycles

VARIABLES
    tclock,   \* the time, in ms since the process started
    started,  \* how many calls of runFaucet have been made
    cycles,   \* per call of runFaucet: where it is, its loop positions, its timer
    interval  \* the repeating timer of setInterval

timerVars == <<tclock, started, cycles, interval>>

IdleCycle == [pc |-> "idle", chainIdx |-> 1, walletIdx |-> 0, wakeAt |-> 0]

\* the process has started and has called runFaucet(), which awaits
\* loadWallets(); setInterval has not been called yet
InitTimer ==
    /\ tclock = 0
    /\ started = 1
    /\ cycles = [c \in Cycles |-> IF c = 1 THEN [IdleCycle EXCEPT !.pc = "loading"]
                                           ELSE IdleCycle]
    /\ interval = [armed |-> FALSE, at |-> 0]

\* loadWallets of cycle c settles: wallets.json holds the sample, or is
\* missing and the sample is written
CycleLoads(c) ==
    /\ cycles[c].pc = "loading"
    /\ cycles' = [cycles EXCEPT ![c].pc = "chain"]
    /\ UNCHANGED <<tclock, started, interval>>

\* cycle c calls processChain for its next chain
CycleProcessChain(c) ==
    /\ cycles[c].pc = "chain"
    /\ cycles[c].chainIdx <= Len(ChainOrder)
    /\ LET ws == sampleWallets[ChainOrder[cycles[c].chainIdx]]
       IN cycles' = IF ~ws.present \/ Len(ws.list) = 0
                      THEN [cycles EXCEPT ![c].chainIdx = @ + 1]
                      ELSE [cycles EXCEPT ![c].walletIdx = 1, ![c].pc = "claiming"]
    /\ UNCHANGED <<tclock, started, interval>>

\* the POST of cycle c settles, however long it took; processChain arms its
\* 2 s timer
CycleClaimSettles(c, resp) ==
    /\ cycles[c].pc = "claiming"
    /\ ~ClaimResult(resp).escaped
    /\ cycles' = [cycles EXCEPT ![c].pc = "delay",
                                ![c].wakeAt = tclock + ClaimDelay(ClaimResult(resp))]
    /\ UNCHANGED <<tclock, started, interval>>

\* the 2 s timer of cycle c fires
CycleDelayDone(c) ==
    /\ cycles[c].pc = "delay"
    /\ tclock >= cycles[c].wakeAt
    /\ LET ws == sampleWallets[ChainOrder[cycles[c].chainIdx]]
       IN cycles' = IF cycles[c].walletIdx < Len(ws.list)
                      THEN [cycles EXCEPT ![c].walletIdx = @ + 1, ![c].pc = "claiming"]
                      ELSE [cycles EXCEPT ![c].chainIdx = @ + 1, ![c].pc = "chain"]
    /\ UNCHANGED <<tclock, started, interval>>

\* runFaucet of cycle c returns; the then-callback of the startup call
\* calls setInterval(runFaucet, CLAIM_INTERVAL)
CycleCompletes(c) ==
    /\ cycles[c].pc = "chain"
    /\ cycles[c].chainIdx > Len(ChainOrder)
    /\ cycles' = [cycles EXCEPT ![c].pc = "done"]
    /\ interval' = IF c = 1 THEN [armed |-> TRUE, at |-> tclock + CLAIM_INTERVAL]
                            ELSE interval
    /\ UNCHANGED <<tclock, started>>

\* the repeating timer fires and calls runFaucet, whatever earlier calls are
\* doing, and stays armed for CLAIM_INTERVAL later
IntervalFires ==
    /\ interval.armed
    /\ tclock >= interval.at
    /\ started < MaxCycles
    /\ started' = started + 1
    /\ cycles' = [cycles EXCEPT ![started + 1].pc = "loading"]
    /\ interval' = [interval EXCEPT !.at = @ + CLAIM_INTERVAL]
    /\ UNCHANGED tclock

\* the times at which a timer of the process is due
DueTimes ==
    {cycles[c].wakeAt : c \in {k \in Cycles : cycles[k].pc = "delay"}}
    \cup (IF interval.armed /\ started < MaxCycles THEN {interval.at} ELSE {})

\* nothing is due: the process sleeps until its earliest timer
TimePasses ==
    /\ DueTimes # {}
    /\ \A t \in DueTimes : t > tclock
    /\ tclock' = CHOOSE t \in DueTimes : \A u \in DueTimes : t <= u
    /\ UNCHANGED <<started, cycles, interval>>

vars == <<proxyVars, faucetVars, timerVars>>

\* the proxy alone: the faucet automation is another process
InitPoll ==
    /\ InitProxy
    /\ FaucetStart("local", [kind |-> "missing", wallets |-> NoWallets])
    /\ InitTimer

\* the faucet automation alone
InitCycle == InitProxy /\ InitFaucet /\ InitTimer

(***************************************************************************)
(* SpecPoll: one invocation of pollAttestation (one request), against      *)
(* every response and delay.                                               *)
(***************************************************************************)
NextPoll ==
    \/ \E h \in Hashes : Arrive(1, h) /\ UNCHANGED <<faucetVars, timerVars>>
    \/ \E d \in Delays, res \in Responses : AttemptSettles(1, d, res) /\ UNCHANGED <<faucetVars, timerVars>>
    \/ \E d \in Delays : TimerFires(1, d) /\ UNCHANGED <<faucetVars, timerVars>>

SpecPoll == InitPoll /\ [][NextPoll]_vars

(***************************************************************************)
(* SpecPollLive: one invocation of pollAttestation in which every fetch    *)
(* settles and every timer fires.  The delays are 0 and the deadline, so   *)
(* that the deadline passes within MaxAttempts attempts.                   *)
(***************************************************************************)
LiveDelays == {0, timeout}

PollArrives == \E h \in Hashes : Arrive(1, h) /\ UNCHANGED <<faucetVars, timerVars>>

PollSettles ==
    \E d \in LiveDelays, res \in Responses : AttemptSettles(1, d, res) /\ UNCHANGED <<faucetVars, timerVars>>

PollTimer == \E d \in LiveDelays : TimerFires(1, d) /\ UNCHANGED <<faucetVars, timerVars>>

NextPollLive ==
    \/ PollArrives
    \/ PollSettles
    \/ PollTimer

SpecPollLive ==
    InitPoll /\ [][NextPollLive]_vars /\ WF_vars(PollSettles) /\ WF_vars(PollTimer)

(***************************************************************************)
(* SpecProxy: the server with NumReqs requests whose polls interleave at   *)
(* their suspension points.                                                *)
(***************************************************************************)
ProxyHashes == {"0xabc"}
ProxyDelays == {0, timeout + pollInterval}
ProxyResponses ==
    {NetErr,
     HttpRes(200, [status |-> "complete", attestation |-> Undefined]),
     HttpRes(200, [status |-> "complete", attestation |-> "0xa77e57ed"])}

NextProxy ==
    \/ \E p \in Reqs, h \in ProxyHashes : Arrive(p, h) /\ UNCHANGED <<faucetVars, timerVars>>
    \/ \E p \in Reqs, d \in ProxyDelays, res \in ProxyResponses :
           AttemptSettles(p, d, res) /\ UNCHANGED <<faucetVars, timerVars>>
    \/ \E p \in Reqs, d \in ProxyDelays : TimerFires(p, d) /\ UNCHANGED <<faucetVars, timerVars>>

SpecProxy == InitPoll /\ [][NextProxy]_vars

(***************************************************************************)
(* SpecFaucet: one cycle of the faucet automation, of either variant, for  *)
(* every wallets.json and every faucet response.                           *)
(***************************************************************************)
NextFaucet ==
    \/ RunFaucet /\ UNCHANGED <<proxyVars, timerVars>>
    \/ LoadWallets /\ UNCHANGED <<proxyVars, timerVars>>
    \/ ProcessChain /\ UNCHANGED <<proxyVars, timerVars>>
    \/ \E resp \in FaucetResponses : ClaimSettles(resp) /\ UNCHANGED <<proxyVars, timerVars>>
    \/ DelayDone /\ UNCHANGED <<proxyVars, timerVars>>
    \/ CycleEnds /\ UNCHANGED <<proxyVars, timerVars>>

SpecFaucet == InitCycle /\ [][NextFaucet]_vars

(***************************************************************************)
(* SpecTimer: faucet-automation.js over MaxCycles calls of runFaucet.      *)
(***************************************************************************)
NextTimer ==
    \/ \E c \in Cycles : CycleLoads(c) /\ UNCHANGED <<proxyVars, faucetVars>>
    \/ \E c \in Cycles : CycleProcessChain(c) /\ UNCHANGED <<proxyVars, faucetVars>>
    \/ \E c \in Cycles, resp \in FaucetResponses :
           CycleClaimSettles(c, resp) /\ UNCHANGED <<proxyVars, faucetVars>>
    \/ \E c \in Cycles : CycleDelayDone(c) /\ UNCHANGED <<proxyVars, faucetVars>>
    \/ \E c \in Cycles : CycleCompletes(c) /\ UNCHANGED <<proxyVars, faucetVars>>
    \/ IntervalFires /\ UNCHANGED <<proxyVars, faucetVars>>
    \/ TimePasses /\ UNCHANGED <<proxyVars, faucetVars>>

SpecTimer == InitPoll /\ [][NextTimer]_vars

(***************************************************************************)
(* Properties of pollAttestation and of the proxy handler.                 *)
(***************************************************************************)
\* the attempt of request p has settled and the loop body has run: last[p]
\* is the response that pass looked at
Settled(p) == pc[p] \in {"waiting", "returned", "thrown"}

Terminal(p) == pc[p] \in {"returned", "thrown"}

\* the response is a 2xx whose body parsed
Successful(res) == res.kind = "http" /\ Ok(res) /\ res.parses

\* the word "pending" in the letter cases the model draws
PendingWords == {"pending", "PENDING", "Pending"}

PresentNonPending(json) ==
    json.attestation # Undefined /\ json.attestation \notin PendingWords

\* wall-clock time between the start of the poll and its terminal outcome
ElapsedAtEnd(p) == outcomes[p][1].at - start[p]

\* C1: pollAttestation returns on an attempt exactly when that attempt's
\* response is successful and carries a present, non-pending attestation (so
\* it returns on the first such response and on none before it), and what it
\* returns is that response's payload, unmodified, with no request issued
\* beyond that attempt.
C1_ReturnsFirstReadyPayload ==
    \A p \in Reqs :
        Settled(p) =>
            /\ (pc[p] = "returned") <=>
                   (Successful(last[p]) /\ PresentNonPending(last[p].body))
            /\ pc[p] = "returned" =>
                   /\ Len(outcomes[p]) = 1
                   /\ outcomes[p][1].type = "payload"
                   /\ outcomes[p][1].value = last[p].body
                   /\ waits[p] = attempts[p] - 1

\* C2: whether pollAttestation returns on a successful response depends only
\* on the response's attestation field: the response observed is returned
\* exactly when the same response with any other status value would be, and a
\* response with status "complete" and a pending attestation is not returned.
C2_DecisionByAttestationOnly ==
    \A p \in Reqs :
        (Settled(p) /\ Successful(last[p])) =>
            /\ \A st \in StatusValues :
                   ReturnsJson(HttpRes(200, [last[p].body EXCEPT !.status = st]))
                       = (pc[p] = "returned")
            /\ (last[p].body.status = "complete"
                  /\ last[p].body.attestation \in PendingWords)
                   => pc[p] # "returned"

\* C3: a successful response whose attestation is the word "pending" in any
\* letter case is never returned: the pass goes on to the deadline check and
\* either throws the timeout or waits.
C3_PendingAnyCaseNotReturned ==
    \A p \in Reqs :
        (Settled(p) /\ Successful(last[p])
           /\ last[p].body.attestation \in PendingWords) =>
            /\ pc[p] # "returned"
            /\ outcomes[p] = << >> \/ outcomes[p][1].type = "timeout"

\* C4: on a successful response with status "complete" and no attestation
\* field, pollAttestation does not return and raises nothing but the timeout
\* of an elapsed deadline: it waits the poll interval for another attempt.
C4_CompleteWithoutAttestationContinues ==
    \A p \in Reqs :
        (Settled(p) /\ Successful(last[p])
           /\ last[p].body.status = "complete"
           /\ last[p].body.attestation = Undefined) =>
            /\ pc[p] \in {"waiting", "thrown"}
            /\ sent[p] = << >> \/ sent[p][1].status = 500
            /\ pc[p] = "thrown" =>
                   /\ outcomes[p][1].type = "timeout"
                   /\ ElapsedAtEnd(p) > timeout
            /\ pc[p] = "waiting" =>
                   /\ outcomes[p] = << >>
                   /\ wakeAt[p] - pollInterval - start[p] <= timeout

C4_Witness ==
    \E p \in Reqs :
        /\ pc[p] = "waiting"
        /\ attempts[p] >= 2
        /\ Successful(last[p])
        /\ last[p].body.status = "complete"
        /\ last[p].body.attestation = Undefined

\* C5: when every response carried attestation "pending" or "PENDING",
\* pollAttestation has not returned a payload; and the timeout error is only
\* raised when strictly more than 180 s have elapsed since the start.
C5_AlwaysPendingOnlyTimesOut ==
    \A p \in Reqs :
        /\ (allPending[p] /\ attempts[p] > 0) => pc[p] # "returned"
        /\ pc[p] = "thrown" => ElapsedAtEnd(p) > timeout

\* C6: a transient failure (fetch throwing, a non-2xx response, a body that
\* does not parse) never ends the poll by itself: after it the invocation
\* either throws the timeout, with the deadline elapsed, or waits the 3 s
\* interval for another attempt; an invocation ends only by returning a ready
\* payload or by the deadline check; and however many failures there were, an
\* invocation without outcome is still fetching or waiting.
C6_TransientFailuresNeverTerminate ==
    \A p \in Reqs :
        /\ (Settled(p) /\ TransientFailure(last[p])) =>
               /\ pc[p] \in {"waiting", "thrown"}
               /\ pc[p] = "waiting" =>
                      /\ wakeAt[p] - pollInterval - start[p] <= timeout
                      /\ wakeAt[p] - pollInterval >= start[p]
        /\ pc[p] = "thrown" =>
               /\ outcomes[p][1].type = "timeout"
               /\ ElapsedAtEnd(p) > timeout
        /\ pc[p] = "returned" => ReturnsJson(last[p])
        /\ (failures[p] > 0 /\ outcomes[p] = << >>) => pc[p] \in {"fetching", "waiting"}

C6_Witness ==
    \E p \in Reqs :
        /\ failures[p] = 2
        /\ attempts[p] = 3
        /\ pc[p] = "waiting"
        /\ Successful(last[p])

\* C7: an invocation of pollAttestation has at most one outcome, it has one
\* exactly when it has ended, and once it has ended it issues no further
\* request, starts no further wait and gets no further outcome.
C7_AtMostOneOutcome ==
    /\ [](\A p \in Reqs :
             /\ Len(outcomes[p]) <= 1
             /\ Terminal(p) <=> Len(outcomes[p]) = 1)
    /\ [][\A p \in Reqs :
             Terminal(p) =>
                 /\ pc'[p] = pc[p]
                 /\ attempts'[p] = attempts[p]
                 /\ waits'[p] = waits[p]
                 /\ outcomes'[p] = outcomes[p]]_vars

C7_Witness ==
    \E p \in Reqs :
        /\ pc[p] = "thrown"
        /\ attempts[p] >= 2
        /\ Len(outcomes[p]) = 1

\* C8: the handler of GET /attestations/:hash sends exactly one response per
\* request, when its poll has ended and not before: status 200 with the
\* payload pollAttestation returned, or status 500 with {error: message} when
\* it threw; and the server process stays up, so that requests arriving after
\* a failed poll are served.
C8_OneResponsePerRequest ==
    /\ serverUp
    /\ \A p \in Reqs :
           /\ ~Terminal(p) => sent[p] = << >>
           /\ pc[p] = "returned" =>
                  sent[p] = <<[status |-> 200, body |-> outcomes[p][1].value]>>
           /\ pc[p] = "thrown" =>
                  sent[p] = <<[status |-> 500,
                               body |-> [error |-> TimeoutError(hash[p]).message]]>>

C8_Witness ==
    \E p, q \in Reqs :
        /\ pc[p] = "thrown"
        /\ pc[q] = "returned"
        /\ start[q] >= outcomes[p][1].at

(***************************************************************************)
(* Properties of the faucet automation.                                    *)
(***************************************************************************)
\* the claims of chain c that ended, and the POSTs sent for chain c, in order
ClaimsOf(c) == LET OfChain(e) == e.chain = c IN SelectSeq(claimLog, OfChain)

PostsOf(c) == LET OfChain(e) == e.chain = c IN SelectSeq(posts, OfChain)

\* C9: every call of claimUSDC sends exactly one POST, for its wallet and
\* chain, and never another one; it ends with one result and never with an
\* exception; the result has success = true exactly when the response was a
\* 2xx whose body parsed, and success = false for a non-2xx response, a
\* network failure and an unparsable body.
C9_OneRequestOneOutcome ==
    /\ Len(posts) = Len(claimLog) + (IF fpc = "claiming" THEN 1 ELSE 0)
    /\ \A i \in 1..Len(claimLog) :
           /\ ~claimLog[i].escaped
           /\ claimLog[i].success <=> (claimLog[i].ok /\ claimLog[i].parsed)
           /\ posts[i] = ClaimRequest(claimLog[i].wallet, claimLog[i].chain)
    /\ fpc = "delay" =>
           /\ Len(results) = walletIdx
           /\ results[walletIdx].success = claimLog[Len(claimLog)].success

C9_Witness ==
    /\ Len(claimLog) = 3
    /\ claimLog[1].ok /\ claimLog[1].parsed /\ claimLog[1].success
    /\ claimLog[2].ok /\ ~claimLog[2].parsed /\ ~claimLog[2].success
    /\ ~claimLog[3].ok /\ ~claimLog[3].success
    /\ Len(posts) = 3

\* C10: for a chain with a non-empty wallet list of length n, processChain
\* sends exactly n claim requests, one per wallet in list order, whatever
\* claims fail, and logs a summary whose successful count is the number of
\* successful claims and whose failed count is the number of failed ones.
C10_ChainSummaryCountsClaims ==
    \A k \in 1..Len(ChainOrder) :
        LET c == ChainOrder[k]
            list == wallets[c].list
        IN /\ (k < chainIdx /\ Len(list) > 0) => summaries[c].logged
           /\ summaries[c].logged =>
                  /\ Len(list) > 0
                  /\ Len(PostsOf(c)) = Len(list)
                  /\ Len(ClaimsOf(c)) = Len(list)
                  /\ \A i \in 1..Len(list) :
                         /\ PostsOf(c)[i] = ClaimRequest(list[i], c)
                         /\ ClaimsOf(c)[i].wallet = list[i]
                  /\ summaries[c].successful =
                         Cardinality({i \in 1..Len(list) : ClaimsOf(c)[i].success})
                  /\ summaries[c].failed =
                         Cardinality({i \in 1..Len(list) : ~ClaimsOf(c)[i].success})
                  /\ summaries[c].successful + summaries[c].failed = Len(list)

C10_Witness ==
    \E c \in ChainNames :
        /\ summaries[c].logged
        /\ Len(wallets[c].list) = 3
        /\ ClaimsOf(c)[1].success /\ ~ClaimsOf(c)[2].success /\ ClaimsOf(c)[3].success
        /\ summaries[c].successful = 2
        /\ summaries[c].failed = 1

\* the call of loadWallets has raised an exception
LoadRaised ==
    /\ fpc \notin {"start", "loading"}
    /\ \/ walletFile.kind = "corrupt"
       \/ walletFile.kind = "missing" /\ variant = "actions"

\* runFaucet has passed the call of processChain for the k-th chain
ChainPassed(k) == fpc \notin {"start", "loading"} /\ ~LoadRaised /\ k < chainIdx

\* C11: processChain called with an empty wallet list produces a summary
\* with 0 successes and 0 failures, and sends no request.
C11_EmptyListZeroSummary ==
    \A k \in 1..Len(ChainOrder) :
        LET c == ChainOrder[k]
        IN (ChainPassed(k) /\ wallets[c].present /\ Len(wallets[c].list) = 0) =>
               /\ summaries[c].logged
               /\ summaries[c].successful = 0
               /\ summaries[c].failed = 0
               /\ Len(PostsOf(c)) = 0

RECURSIVE SumSummaries(_, _)
SumSummaries(i, wantSuccess) ==
    IF i = 0 THEN 0
    ELSE (IF wantSuccess THEN summaries[ChainOrder[i]].successful
                         ELSE summaries[ChainOrder[i]].failed)
         + SumSummaries(i - 1, wantSuccess)

\* C12: a run of runFaucet (part_000) in which the wallet list of some chain
\* is empty or absent does not end in the fatal-error path: every chain that
\* has wallets is processed, and the global counts are reported and are the
\* sums of the per-chain counts.
C12_EmptyChainIsSkipped ==
    (/\ variant = "actions"
     /\ walletFile.kind = "ok"
     /\ fpc \in {"done", "exited"}
     /\ \E c \in ChainNames : ~wallets[c].present \/ Len(wallets[c].list) = 0) =>
        /\ ~fatal
        /\ fpc = "done"
        /\ \A c \in ChainNames : Len(wallets[c].list) > 0 => summaries[c].logged
        /\ totals.logged
        /\ totals.successful = SumSummaries(Len(ChainOrder), TRUE)
        /\ totals.failed = SumSummaries(Len(ChainOrder), FALSE)

\* C13: when loading the wallet configuration raises an exception, no claim
\* request is sent, the run takes the fatal path and the failure reaches the
\* process boundary (the process exits with a failure) instead of the cycle
\* completing as a normal one.
C13_LoadFailureIsFatal ==
    LoadRaised =>
        /\ posts = << >>
        /\ claimLog = << >>
        /\ fatal
        /\ fpc = "exited"

\* the static order of the configured chains
StaticChainOrder == <<"avalanche_fuji", "ethereum_sepolia", "base_sepolia">>

\* the claim requests of the wallet lists of the first k chains, chain after
\* chain, each list in its order
RECURSIVE ClaimPlan(_, _)
ClaimPlan(w, k) ==
    IF k = 0 THEN << >>
    ELSE ClaimPlan(w, k - 1)
         \o [i \in 1..Len(w[StaticChainOrder[k]].list) |->
                ClaimRequest(w[StaticChainOrder[k]].list[i], StaticChainOrder[k])]

\* C18: the claim requests of a cycle are a prefix of the concatenation, in
\* the static chain order, of the chains' wallet lists, and all of it once
\* the chain loop has ended; a request is sent only when every earlier claim
\* has produced its outcome, whatever claims failed.
C18_ClaimsInChainOrder ==
    LET plan == ClaimPlan(wallets, Len(StaticChainOrder))
    IN /\ Len(posts) <= Len(plan)
       /\ posts = SubSeq(plan, 1, Len(posts))
       /\ Len(claimLog) <= Len(posts)
       /\ Len(posts) <= Len(claimLog) + 1
       /\ (fpc \in {"done", "exited"} /\ ~LoadRaised) => posts = plan

C18_Witness ==
    /\ fpc = "done"
    /\ Len(posts) = 3
    /\ posts[1].chain = "avalanche_fuji"
    /\ posts[2].chain = "ethereum_sepolia"
    /\ posts[3].chain = "base_sepolia"
    /\ ~claimLog[1].success
    /\ claimLog[2].success
    /\ claimLog[3].success

(***************************************************************************)
(* Further properties of pollAttestation and of the proxy.                 *)
(***************************************************************************)
\* C15: when every fetch settles and every timer fires, an invocation of
\* pollAttestation that has started reaches a terminal outcome, and a
\* terminal invocation has exactly one outcome, a payload or the timeout.
C15_PollTerminates ==
    /\ \A p \in Reqs : (pc[p] # "idle") ~> Terminal(p)
    /\ [](\A p \in Reqs :
             Terminal(p) =>
                 /\ Len(outcomes[p]) = 1
                 /\ outcomes[p][1].type \in {"payload", "timeout"})

C15_Witness ==
    \E p \in Reqs :
        /\ pc[p] = "thrown"
        /\ attempts[p] = 3
        /\ allPending[p]

\* remote requests of request p that have not settled yet
InFlight(p) == attempts[p] - waits[p] - Len(outcomes[p])

\* C16: the remote requests of one invocation are sequential: at most one
\* is in flight; the first is sent with no wait before it; every further one
\* is sent from the wait that followed the previous request's completion and
\* its passed deadline check, not before the 3 s of that wait have elapsed; and
\* there is exactly one wait between two consecutive requests.
C16_SequentialRequests ==
    /\ [](\A p \in Reqs :
             /\ InFlight(p) \in {0, 1}
             /\ InFlight(p) = 1 <=> pc[p] = "fetching"
             /\ pc[p] = "fetching" => waits[p] = attempts[p] - 1
             /\ pc[p] = "waiting" => waits[p] = attempts[p]
             /\ pc[p] = "idle" => attempts[p] = 0 /\ waits[p] = 0)
    /\ [][\A p \in Reqs :
             attempts'[p] # attempts[p] =>
                 /\ attempts'[p] = attempts[p] + 1
                 /\ pc'[p] = "fetching"
                 /\ \/ pc[p] = "idle" /\ attempts[p] = 0 /\ waits[p] = 0
                    \/ /\ pc[p] = "waiting"
                       /\ InFlight(p) = 0
                       /\ now' >= wakeAt[p]
                       /\ ~TimedOut(wakeAt[p] - pollInterval, start[p])]_vars

C16_Witness ==
    \E p \in Reqs :
        /\ pc[p] = "fetching"
        /\ attempts[p] = 3
        /\ waits[p] = 2
        /\ now = start[p] + 2 * pollInterval

\* C19: the readiness of an attempt is tested before the deadline: a
\* successful response with a present, non-pending attestation is returned
\* however late it arrives; the timeout is thrown only after an attempt whose
\* response was not such a response, with the deadline elapsed; and never
\* before a remote request was made and has settled.
C19_ReadinessBeforeDeadline ==
    \A p \in Reqs :
        /\ (Settled(p) /\ Successful(last[p]) /\ PresentNonPending(last[p].body)) =>
               /\ pc[p] = "returned"
               /\ outcomes[p][1].type = "payload"
               /\ outcomes[p][1].value = last[p].body
        /\ pc[p] = "thrown" =>
               /\ attempts[p] >= 1
               /\ last[p] # NoRes
               /\ ~(Successful(last[p]) /\ PresentNonPending(last[p].body))
               /\ ElapsedAtEnd(p) > timeout

C19_Witness ==
    \E p \in Reqs :
        /\ pc[p] = "returned"
        /\ attempts[p] = 2
        /\ ElapsedAtEnd(p) > timeout
        /\ PresentNonPending(last[p].body)

\* everything request p and its poll hold
Local(p) ==
    <<pc[p], hash[p], start[p], attempts[p], waits[p], wakeAt[p], last[p],
      failures[p], allPending[p], outcomes[p], sent[p]>>

\* C20: concurrent requests are isolated: a step of the server changes the
\* state of one request's poll at most; every poll measures its deadline
\* from its own start, its outcome is decided by the responses to its own
\* requests, and its request gets its own single response, for its own hash.
C20_PollsAreIsolated ==
    /\ [](\A p \in Reqs :
             /\ pc[p] # "idle" => start[p] <= now
             /\ pc[p] = "waiting" => wakeAt[p] - pollInterval - start[p] <= timeout
             /\ pc[p] = "thrown" =>
                    /\ ~ReturnsJson(last[p])
                    /\ outcomes[p][1].at - start[p] > timeout
                    /\ sent[p] = <<[status |-> 500,
                                    body |-> [error |-> TimeoutError(hash[p]).message]]>>
             /\ pc[p] = "returned" =>
                    /\ ReturnsJson(last[p])
                    /\ sent[p] = <<[status |-> 200, body |-> last[p].body]>>)
    /\ [][\A p, q \in Reqs :
             (p # q /\ Local(p)' # Local(p)) => Local(q)' = Local(q)]_vars

C20_Witness ==
    \E p, q \in Reqs :
        /\ pc[p] = "thrown"
        /\ pc[q] = "returned"
        /\ start[q] > start[p]
        /\ start[q] < outcomes[p][1].at

\* C17: after every claim processChain waits 2 s before the next claim is
\* sent, and before its summary: the timer armed when a claim ends is due
\* 2000 ms later whether the claim succeeded or failed, and every POST but
\* the first is sent no sooner than 2000 ms after the claim before it ended.
C17_FixedDelayAfterEveryClaim ==
    /\ Len(sentAt) = Len(posts)
    /\ \A i \in 1..Len(claimLog) :
           /\ sentAt[i] <= claimLog[i].at
           /\ i < Len(sentAt) =>
                  /\ ~claimLog[i].escaped
                  /\ sentAt[i + 1] >= claimLog[i].at + 2000
    /\ fpc = "delay" =>
           /\ Len(claimLog) = Len(posts)
           /\ delayUntil = claimLog[Len(claimLog)].at + 2000
    /\ \A c \in ChainNames :
           (summaries[c].logged /\ Len(ClaimsOf(c)) > 0) =>
               fclock >= ClaimsOf(c)[Len(ClaimsOf(c))].at + 2000

C17_Witness ==
    /\ Len(claimLog) = 3
    /\ ~claimLog[1].success
    /\ claimLog[2].success
    /\ sentAt[2] = claimLog[1].at + 2000
    /\ sentAt[3] = claimLog[2].at + 2000
    /\ fpc = "done"

(***************************************************************************)
(* Properties of the repeating timer of faucet-automation.js.              *)
(***************************************************************************)
\* calls of runFaucet that have begun and not returned
RunningCycles == {c \in Cycles : cycles[c].pc \notin {"idle", "done"}}

\* calls of runFaucet whose POST is in flight
ClaimingCycles == {c \in Cycles : cycles[c].pc = "claiming"}

\* C14: claims are never concurrent, also when the 60-minute timer fires
\* during a cycle: at most one POST is in flight and at most one call of
\* runFaucet is under way.
C14_ClaimsNeverConcurrent ==
    /\ Cardinality(ClaimingCycles) <= 1
    /\ Cardinality(RunningCycles) <= 1

====
